---- MODULE Spec2Model ----
(***************************************************************************)
(* Model of plugins/shell/src/process/mod.rs: Command::spawn, the two pipe *)
(* reader threads, the supervisor thread, the completion guard (RwLock),   *)
(* the capacity-1 event channel, the consumer loops of Command::output and *)
(* Command::status, CommandChild::write and kill, and Command::envs.       *)
(***************************************************************************)
EXTENDS Integers, Sequences, FiniteSets, TLC

\* ------------------------------------------------------------------ bounds
\* Longest byte sequence the child writes to one output stream.
MaxBytes == 2
\* Cap of the observation counters (they saturate, the program has no such cap).
MaxCount == 2
\* Longest output per stream in the specifications with fairness.
MaxFairBytes == 1

\* --------------------------------------------------------------- constants
NEWLINE_BYTE == 10
\* read_line splits on \n or \r.
Separators == {NEWLINE_BYTE, 13}
\* The bytes the child may write to a stream: one payload byte and a separator,
\* \n on stdout and \r on stderr.
Bytes(s) == {97} \cup (IF s = "Stdout" THEN {NEWLINE_BYTE} ELSE Separators \ {NEWLINE_BYTE})
\* The two output streams, named after the CommandEvent wrapper of each reader.
Streams == {"Stdout", "Stderr"}
\* Exit codes the child may exit with.
ExitCodes == {0, 1}
\* The signal kill() delivers.
KillSignal == {9}
\* The places where Command::spawn can fail with `?`.
SpawnFailures == {"pipe_stdout", "pipe_stderr", "pipe_stdin", "os_spawn"}

\* Option<T>: None is the empty sequence, Some(x) the one-element sequence.
None == << >>
Some(x) == << x >>

\* Environment variable names and values given to Command::envs.
EnvKeys == {"A", "B"}
EnvValues == {"x", "y"}

RECURSIVE SeqsUpTo(_, _)
SeqsUpTo(S, n) ==
    IF n = 0 THEN { << >> }
    ELSE LET shorter == SeqsUpTo(S, n - 1)
         IN  shorter \cup { Append(q, b) : q \in shorter, b \in S }

VARIABLES
    spawn_result,   \* "none" before spawn(), "Ok" or "Err" after it returned
    env,            \* Command.env: per key, the value mapped to it if any
    env_merged,     \* per key, the value of the latest envs() call that gave the key
    handle,         \* CommandChild: "none", "held", "killed", "dropped"
    waits_stdin,    \* the child exits only once it reads end of file on its stdin
    write_result,   \* the last CommandChild::write: its buffer and what it returned
    program,        \* what the child writes to each stream if it is not killed
    child,          \* "none", "running", "exited"
    status,         \* the child's std ExitStatus once exited: [code, signal]
    kill_sent,      \* SharedChild::kill was called on the running child
    pipe,           \* per stream: bytes written by the child and not yet read
    written,        \* per stream: every byte the child has written
    reader,         \* per stream: position of the pipe reader thread
    buf,            \* per stream: the event the reader is about to send
    supervisor,     \* position of the supervisor thread
    wait_result,    \* "none", "Ok", "Err": what child_.wait() returned
    guard,          \* RwLock<()>: [readers: set of streams, writer: BOOLEAN]
    chan,           \* the channel(1) buffer
    rx,             \* the Receiver: "none", "open", "closed" (recv gave None), "dropped"
    code,           \* output(): let mut code
    stdout,         \* output(): let mut stdout
    stderr,         \* output(): let mut stderr
    status_code,    \* status(): let mut code
    got,            \* per stream: payloads delivered to the consumer, in order
    terminal_seen,  \* the supervisor's event was delivered to the consumer
    after_terminal, \* an event was delivered after the supervisor's event
    sent            \* per kind of supervisor event: how many were sent (saturating)

callerVars == << spawn_result, handle >>
childVars == << program, child, status, kill_sent >>
pipeVars == << pipe, written >>
readerVars == << reader, buf >>
supervisorVars == << supervisor, wait_result >>
channelVars == << chan, rx >>
outputVars == << code, stdout, stderr, status_code >>
builderVars == << env, env_merged >>
stdinVars == << waits_stdin, write_result >>
observed == << got, terminal_seen, after_terminal >>

vars == << builderVars, stdinVars, callerVars, childVars, pipeVars, readerVars, supervisorVars, guard,
           channelVars, outputVars, observed, sent >>

\* ------------------------------------------------------------------ events
\* CommandEvent, one record shape for the four variants.
Stdout(line) == [tag |-> "Stdout", data |-> line, msg |-> "", code |-> None, signal |-> None]
Stderr(line) == [tag |-> "Stderr", data |-> line, msg |-> "", code |-> None, signal |-> None]
Error(message) == [tag |-> "Error", data |-> << >>, msg |-> message, code |-> None, signal |-> None]
Terminated(payload) ==
    [tag |-> "Terminated", data |-> << >>, msg |-> "", code |-> payload.code, signal |-> payload.signal]

\* Both readers given the same wrapper.
wrapper_same(s, line) == Stdout(line)

\* The wrapper passed to spawn_pipe_reader for a stream.
wrapper(s, line) == IF s = "Stdout" THEN Stdout(line) ELSE Stderr(line)

\* e.to_string() of a failed read of stream s, and of a failed wait.
ReadError(s) == IF s = "Stdout" THEN "read stdout" ELSE "read stderr"
WaitError == "wait"

\* What the counters and the consumer's record tell apart: the two data tags,
\* Terminated, and the Error events by their message.
Kind(ev) == IF ev.tag = "Error" THEN ev.msg ELSE ev.tag
\* The events the supervisor sends.
TerminalKinds == {"Terminated", WaitError}

Bump(n) == IF n < MaxCount THEN n + 1 ELSE n
\* The send counters after a send of ev.
Count(ev) == IF Kind(ev) \in TerminalKinds THEN [sent EXCEPT ![Kind(ev)] = Bump(@)] ELSE sent

\* ------------------------------------------------------------ line splitter
HasSeparator(bytes) == \E i \in 1..Len(bytes) : bytes[i] \in Separators
FirstSeparator(bytes) ==
    CHOOSE i \in 1..Len(bytes) :
        /\ bytes[i] \in Separators
        /\ \A j \in 1..(i - 1) : bytes[j] \notin Separators

\* tauri::utils::io::read_line on a pipe holding `bytes`: the bytes consumed (n),
\* the record without its separator (line) and the bytes left in the pipe (rest).
\* The call blocks while the pipe holds no separator and its write end is open.
read_line_ready(bytes, closed) == HasSeparator(bytes) \/ closed
read_line(bytes) ==
    IF HasSeparator(bytes)
    THEN LET i == FirstSeparator(bytes)
         IN  [n |-> i, line |-> SubSeq(bytes, 1, i - 1), rest |-> SubSeq(bytes, i + 1, Len(bytes))]
    ELSE [n |-> Len(bytes), line |-> bytes, rest |-> << >>]

\* ------------------------------------------------------------------- state
\* What a child may write: per stream, at most n of the stream's bytes.
Programs(n) == { f \in [Streams -> SeqsUpTo(Separators \cup {97}, n)] :
                    \A s \in Streams : \A i \in 1..Len(f[s]) : f[s][i] \in Bytes(s) }

\* Command::new: nothing is spawned, the environment map is empty.
Created ==
    /\ env = [k \in EnvKeys |-> None]
    /\ env_merged = [k \in EnvKeys |-> None]
    /\ write_result = None
    /\ status_code = None
    /\ spawn_result = "none"
    /\ handle = "none"
    /\ child = "none"
    /\ status = [code |-> None, signal |-> None]
    /\ kill_sent = FALSE
    /\ pipe = [s \in Streams |-> << >>]
    /\ written = [s \in Streams |-> << >>]
    /\ reader = [s \in Streams |-> "none"]
    /\ buf = [s \in Streams |-> None]
    /\ supervisor = "none"
    /\ wait_result = "none"
    /\ guard = [readers |-> {}, writer |-> FALSE]
    /\ chan = << >>
    /\ rx = "none"
    /\ code = None
    /\ stdout = << >>
    /\ stderr = << >>
    /\ got = [s \in Streams |-> << >>]
    /\ terminal_seen = FALSE
    /\ after_terminal = FALSE
    /\ sent = [k \in TerminalKinds |-> 0]

\* A child that exits once it has written its output.
Init ==
    /\ program \in Programs(MaxBytes)
    /\ waits_stdin = FALSE
    /\ Created

\* ----------------------------------------------------------------- channel
\* channel(1)
Capacity == 1

\* A send on a channel with no bound: it never waits.
send_unbounded == TRUE

\* tx.send(ev).await returns: at once with Err when the receiver is gone, else
\* when the buffer has room for ev.
send_ready == rx # "open" \/ Len(chan) < Capacity
chan_after_send(ev) == IF rx = "open" THEN Append(chan, ev) ELSE chan

\* A clone of tx kept in the CommandChild handle.
senders_dropped_but_handle ==
    (\A s \in Streams : reader[s] = "done") /\ supervisor = "done" /\ handle # "held"

\* Every Sender is dropped: both reader closures and the supervisor closure ended.
senders_dropped == (\A s \in Streams : reader[s] = "done") /\ supervisor = "done"

\* ----------------------------------------------------------------- builder
\* The HashMap values given to envs: per key, a value or no mapping.
EnvMaps == [EnvKeys -> {None} \cup { Some(v) : v \in EnvValues }]

\* Command::envs: self.env = env. The map given takes the place of the map kept.
envs(m) ==
    /\ spawn_result = "none"
    /\ env' = m
    /\ env_merged' = [k \in EnvKeys |-> IF m[k] # None THEN m[k] ELSE env_merged[k]]
    /\ UNCHANGED << stdinVars, callerVars, childVars, pipeVars, readerVars, supervisorVars,
                    guard, channelVars, outputVars, observed, sent >>

\* ------------------------------------------------------------------- spawn
\* The threads spawned once the pipes exist, before the OS spawn call.
threads_started_early(fail) == fail \in {"none", "os_spawn"}

\* The pipe readers and the supervisor are spawned after every `?` of spawn().
threads_started(fail) == fail = "none"

\* The pattern `_` in place of a name: the CommandChild is dropped at once.
child_unbound == "dropped"

\* let (mut rx, _child) = self.spawn()?: bound to a name, the CommandChild lives
\* until its caller drops it, kills with it or returns.
child_bound == "held"

spawn(fail) ==
    /\ spawn_result = "none"
    /\ spawn_result' = IF fail = "none" THEN "Ok" ELSE "Err"
    /\ child' = IF fail = "none" THEN "running" ELSE "none"
    /\ handle' = IF fail = "none" THEN child_bound ELSE "none"
    /\ rx' = IF fail = "none" THEN "open" ELSE "none"
    /\ reader' = [s \in Streams |-> IF threads_started(fail) THEN "start" ELSE "none"]
    /\ supervisor' = IF threads_started(fail) THEN "wait" ELSE "none"
    /\ UNCHANGED << builderVars, stdinVars,
                    program, status, kill_sent, pipeVars, buf, wait_result, guard, chan,
                    outputVars, observed, sent >>

\* ------------------------------------------------------------------- child
\* The child writes the next byte of its output to stream s.
child_write(s) ==
    /\ child = "running"
    /\ Len(written[s]) < Len(program[s])
    /\ LET b == program[s][Len(written[s]) + 1]
       IN  /\ pipe' = [pipe EXCEPT ![s] = Append(@, b)]
           /\ written' = [written EXCEPT ![s] = Append(@, b)]
    /\ UNCHANGED << builderVars, stdinVars,
                    callerVars, childVars, readerVars, supervisorVars, guard, channelVars,
                    outputVars, observed, sent >>

\* The write end of the child's stdin is the CommandChild's stdin_writer: it is open
\* while the caller holds the handle, closed once the handle is dropped or consumed.
stdin_eof == handle # "held"

\* The child has written its output and exits with code c; a child that waits for
\* the end of its stdin exits only once the write end is closed.
child_exit(c) ==
    /\ child = "running"
    /\ written = program
    /\ waits_stdin => stdin_eof
    /\ child' = "exited"
    /\ status' = [code |-> Some(c), signal |-> None]
    /\ UNCHANGED << builderVars, stdinVars,
                    callerVars, program, kill_sent, pipeVars, readerVars, supervisorVars,
                    guard, channelVars, outputVars, observed, sent >>

\* The kill signal ends the child wherever it is.
child_killed(sig) ==
    /\ child = "running"
    /\ kill_sent
    /\ child' = "exited"
    /\ status' = [code |-> None, signal |-> Some(sig)]
    /\ UNCHANGED << builderVars, stdinVars,
                    callerVars, program, kill_sent, pipeVars, readerVars, supervisorVars,
                    guard, channelVars, outputVars, observed, sent >>

\* ------------------------------------------------------------ CommandChild
\* CommandChild::kill: signals the child and consumes the handle; it sends no
\* event and waits for nothing.
kill ==
    /\ handle = "held"
    /\ handle' = "killed"
    /\ kill_sent' = (child = "running")
    /\ UNCHANGED << builderVars, stdinVars,
                    spawn_result, program, child, status, pipeVars, readerVars,
                    supervisorVars, guard, channelVars, outputVars, observed, sent >>

\* The caller drops the CommandChild without kill: stdin_writer is closed; the
\* SharedChild lives on in the supervisor's clone and nothing is signalled.
drop_child ==
    /\ handle = "held"
    /\ handle' = "dropped"
    /\ UNCHANGED << builderVars, stdinVars, spawn_result, childVars, pipeVars, readerVars,
                    supervisorVars, guard, channelVars, outputVars, observed, sent >>

\* Buffers given to CommandChild::write.
WriteBufs == { << >>, << 97 >> }

\* The read end of the stdin pipe: the parent's copy lives in `command`, dropped when
\* spawn() returns, so it is closed once the child that inherited it has exited.
stdin_closed == child = "exited"

\* write_all taken to succeed whatever the state of the pipe.
write_all_unchecked(buffer, closed) == "Ok"

\* stdin_writer.write_all(buf): it writes while bytes are left, so an empty buffer
\* is Ok without a write; a write to a pipe with no read end fails.
write_all(buffer, closed) ==
    IF buffer = << >> THEN "Ok" ELSE IF closed THEN "Err" ELSE "Ok"

\* CommandChild::write: the result of write_all is the caller's result; no event is
\* sent and no thread is touched.
write(buffer) ==
    /\ handle = "held"
    /\ write_result' = Some([buf |-> buffer, result |-> write_all(buffer, stdin_closed)])
    /\ UNCHANGED << builderVars, waits_stdin, callerVars, childVars, pipeVars, readerVars,
                    supervisorVars, guard, channelVars, outputVars, observed, sent >>

\* -------------------------------------------------------------- supervisor
\* child_.wait() returns: Ok(status) once the child has exited, or an error.
child_wait(res) ==
    /\ supervisor = "wait"
    /\ res = "Ok" => child = "exited"
    /\ wait_result' = res
    /\ supervisor' = "lock"
    /\ UNCHANGED << builderVars, stdinVars,
                    callerVars, childVars, pipeVars, readerVars, guard, channelVars,
                    outputVars, observed, sent >>

\* guard.write().unwrap(), the same call in the Ok and in the Err arm.
guard_write ==
    /\ supervisor = "lock"
    /\ guard.readers = {}
    /\ ~guard.writer
    /\ guard' = [guard EXCEPT !.writer = TRUE]
    /\ supervisor' = "send"
    /\ UNCHANGED << builderVars, stdinVars,
                    callerVars, childVars, pipeVars, readerVars, wait_result, channelVars,
                    outputVars, observed, sent >>

\* The Err arm sending what the Ok arm sends.
supervisor_event_same(res, st) == Terminated([code |-> st.code, signal |-> st.signal])

\* The event of the arm taken: Terminated with the status' code and signal, or Error.
supervisor_event(res, st) ==
    IF res = "Ok" THEN Terminated([code |-> st.code, signal |-> st.signal])
    ELSE Error(WaitError)

\* block_on_task(tx.send(..)), then the arm ends: _l and tx are dropped, the thread ends.
supervisor_send ==
    /\ supervisor = "send"
    /\ send_ready
    /\ LET ev == supervisor_event(wait_result, status)
       IN  /\ chan' = chan_after_send(ev)
           /\ sent' = Count(ev)
    /\ guard' = [guard EXCEPT !.writer = FALSE]
    /\ supervisor' = "done"
    /\ UNCHANGED << builderVars, stdinVars,
                    callerVars, childVars, pipeVars, readerVars, wait_result, rx,
                    outputVars, observed >>

\* ------------------------------------------------------------- pipe reader
\* guard.read().unwrap(), the first statement of the reader thread.
guard_read(s) ==
    /\ reader[s] = "start"
    /\ ~guard.writer
    /\ guard' = [guard EXCEPT !.readers = @ \cup {s}]
    /\ reader' = [reader EXCEPT ![s] = "read"]
    /\ UNCHANGED << builderVars, stdinVars,
                    callerVars, childVars, pipeVars, buf, supervisorVars, channelVars,
                    outputVars, observed, sent >>

\* The write end of a pipe is closed once no child holds it: the parent's copies
\* live in `command`, dropped when spawn() returns.
eof(s) == child # "running"

\* Where the loop goes after the Ok(n) arm and after the Err(e) arm has sent its
\* event: neither arm breaks, both go round the loop.
after_send(ev) == "read"

\* The loop left on a record with no bytes in it.
break_on_empty_record(r) == r.line = << >>

\* if n == 0 { break; } with n the number of bytes the read consumed.
end_of_stream(r) == r.n = 0

\* Ok(n) with n = 0: break; the closure ends, _lock and tx are dropped.
reader_eof(s) ==
    /\ reader[s] = "read"
    /\ read_line_ready(pipe[s], eof(s))
    /\ end_of_stream(read_line(pipe[s]))
    /\ reader' = [reader EXCEPT ![s] = "done"]
    /\ guard' = [guard EXCEPT !.readers = @ \ {s}]
    /\ UNCHANGED << builderVars, stdinVars,
                    callerVars, childVars, pipeVars, buf, supervisorVars, channelVars,
                    outputVars, observed, sent >>

\* Ok(n) with n > 0: the record is wrapped and is about to be sent.
reader_line(s) ==
    /\ reader[s] = "read"
    /\ read_line_ready(pipe[s], eof(s))
    /\ LET r == read_line(pipe[s])
       IN  /\ ~end_of_stream(r)
           /\ buf' = [buf EXCEPT ![s] = Some(wrapper(s, r.line))]
           /\ pipe' = [pipe EXCEPT ![s] = r.rest]
    /\ reader' = [reader EXCEPT ![s] = "send"]
    /\ UNCHANGED << builderVars, stdinVars,
                    callerVars, childVars, written, supervisorVars, guard, channelVars,
                    outputVars, observed, sent >>

\* Err(e): the error's text is about to be sent as an Error event.
reader_error(s) ==
    /\ reader[s] = "read"
    /\ buf' = [buf EXCEPT ![s] = Some(Error(ReadError(s)))]
    /\ reader' = [reader EXCEPT ![s] = "send"]
    /\ UNCHANGED << builderVars, stdinVars,
                    callerVars, childVars, pipeVars, supervisorVars, guard, channelVars,
                    outputVars, observed, sent >>

\* block_on_task(tx_.send(..)); its result is ignored.
reader_send(s) ==
    /\ reader[s] = "send"
    /\ send_ready
    /\ LET ev == buf[s][1]
       IN  /\ chan' = chan_after_send(ev)
           /\ sent' = Count(ev)
           /\ reader' = [reader EXCEPT ![s] = after_send(ev)]
           /\ guard' = [guard EXCEPT !.readers =
                            IF after_send(ev) = "done" THEN @ \ {s} ELSE @]
    /\ buf' = [buf EXCEPT ![s] = None]
    /\ UNCHANGED << builderVars, stdinVars,
                    callerVars, childVars, pipeVars, supervisorVars, rx, outputVars,
                    observed >>

\* ---------------------------------------------------------------- consumer
\* The push of the newline left out.
push_line_bare(buffer, line) == buffer \o line

\* stdout.extend(line); stdout.push(NEWLINE_BYTE);
push_line(buffer, line) == Append(buffer \o line, NEWLINE_BYTE)

\* The match of output() on a received event.
output_code(ev) == IF ev.tag = "Terminated" THEN ev.code ELSE code
output_stdout(ev) == IF ev.tag = "Stdout" THEN push_line(stdout, ev.data) ELSE stdout
output_stderr(ev) == IF ev.tag = "Stderr" THEN push_line(stderr, ev.data) ELSE stderr

\* status() with every received event's code taken.
status_match_any(ev) == ev.code

\* The match of status() on a received event: only Terminated sets the code.
status_match(ev) == IF ev.tag = "Terminated" THEN ev.code ELSE status_code

\* Ok(ExitStatus { code }): what status() returns and what output() puts in Output.
ExitStatus(c) == [code |-> c]

\* An absent code counted as zero.
success_or_absent(es) == es.code \in {None, Some(0)}

\* ExitStatus::success: self.code == Some(0)
success(es) == es.code = Some(0)

\* rx.recv().await gives Some(event), in the loop of output() and of status().
recv_event ==
    /\ rx = "open"
    /\ chan # << >>
    /\ LET ev == Head(chan)
       IN  /\ code' = output_code(ev)
           /\ status_code' = status_match(ev)
           /\ stdout' = output_stdout(ev)
           /\ stderr' = output_stderr(ev)
           /\ got' = IF ev.tag \in Streams THEN [got EXCEPT ![ev.tag] = Append(@, ev.data)]
                     ELSE got
           /\ terminal_seen' = (terminal_seen \/ Kind(ev) \in TerminalKinds)
           /\ after_terminal' = (after_terminal \/ terminal_seen)
    /\ chan' = Tail(chan)
    /\ UNCHANGED << builderVars, stdinVars,
                    callerVars, childVars, pipeVars, readerVars, supervisorVars, guard, rx,
                    sent >>

\* rx.recv().await gives None: the buffer is empty and every Sender is dropped.
recv_none ==
    /\ rx = "open"
    /\ chan = << >>
    /\ senders_dropped
    /\ rx' = "closed"
    /\ UNCHANGED << builderVars, stdinVars,
                    callerVars, childVars, pipeVars, readerVars, supervisorVars, guard,
                    chan, outputVars, observed, sent >>

\* The caller drops the Receiver; what the buffer holds is dropped with it.
drop_rx ==
    /\ rx = "open"
    /\ rx' = "dropped"
    /\ chan' = << >>
    /\ UNCHANGED << builderVars, stdinVars,
                    callerVars, childVars, pipeVars, readerVars, supervisorVars, guard,
                    outputVars, observed, sent >>

\* ----------------------------------------------------------- specification
\* Command::output and Command::status: spawn, keep the CommandChild, drain the channel.
Next ==
    \/ \E fail \in SpawnFailures \cup {"none"} : spawn(fail)
    \/ \E s \in Streams : child_write(s)
    \/ \E c \in ExitCodes : child_exit(c)
    \/ \E res \in {"Ok", "Err"} : child_wait(res)
    \/ guard_write
    \/ supervisor_send
    \/ \E s \in Streams : guard_read(s)
    \/ \E s \in Streams : reader_eof(s)
    \/ \E s \in Streams : reader_line(s)
    \/ \E s \in Streams : reader_error(s)
    \/ \E s \in Streams : reader_send(s)
    \/ recv_event
    \/ recv_none

Spec == Init /\ [][Next]_vars

\* A caller of spawn() that may call kill() while it drains the channel.
NextKill ==
    \/ Next
    \/ kill
    \/ \E sig \in KillSignal : child_killed(sig)

\* Every thread that can take a step is scheduled; which result a read or the wait
\* gives is the system's choice. A send waits its turn in the channel's queue, so it
\* gets the slot when the slot keeps coming free. The consumer keeps receiving.
Fairness ==
    /\ \A s \in Streams : WF_vars(guard_read(s))
    /\ \A s \in Streams : WF_vars(reader_eof(s) \/ reader_line(s) \/ reader_error(s))
    /\ \A s \in Streams : SF_vars(reader_send(s))
    /\ WF_vars(\E res \in {"Ok", "Err"} : child_wait(res))
    /\ WF_vars(guard_write)
    /\ SF_vars(supervisor_send)
    /\ WF_vars(recv_event)
    /\ WF_vars(recv_none)

InitFair == Init /\ \A s \in Streams : Len(program[s]) <= MaxFairBytes

FairSpec == InitFair /\ [][Next]_vars /\ Fairness

\* The kill signal, once sent, ends the child.
KillSpec ==
    InitFair /\ [][NextKill]_vars /\ Fairness /\ WF_vars(\E sig \in KillSignal : child_killed(sig))

\* A caller of spawn() that writes to the child's stdin while it drains the channel.
NextWrite ==
    \/ Next
    \/ \E buffer \in WriteBufs : write(buffer)

WriteSpec == InitFair /\ [][NextWrite]_vars

\* A caller of spawn() that may drop the Receiver at any moment.
NextAbandon ==
    \/ Next
    \/ drop_rx

AbandonSpec == InitFair /\ [][NextAbandon]_vars /\ Fairness

\* Either kind of child: one that exits by itself, one that waits for the end of
\* its stdin.
InitStdin ==
    /\ program \in Programs(MaxFairBytes)
    /\ waits_stdin \in BOOLEAN
    /\ Created

\* Command::output and Command::status run on either kind of child.
StdinSpec == InitStdin /\ [][Next]_vars

\* A caller of spawn() that may drop the CommandChild while it drains the channel,
\* as `let (mut rx, _) = cmd.spawn()` does at once.
NextDrop ==
    \/ Next
    \/ drop_child

DropSpec == InitStdin /\ [][NextDrop]_vars

\* A Command built with any number of envs() calls, then spawned.
NextEnv ==
    \/ \E m \in EnvMaps : envs(m)
    \/ \E fail \in SpawnFailures \cup {"none"} : spawn(fail)

EnvSpec == InitFair /\ [][NextEnv]_vars

\* ------------------------------------------------------------------ claims
IsPrefix(p, q) == Len(p) <= Len(q) /\ SubSeq(q, 1, Len(p)) = p

\* The separator-delimited records of a byte sequence; bytes after the last
\* separator are a record of their own.
RECURSIVE Records(_)
Records(bytes) ==
    IF bytes = << >> THEN << >>
    ELSE IF HasSeparator(bytes)
    THEN LET i == FirstSeparator(bytes)
         IN  << SubSeq(bytes, 1, i - 1) >> \o Records(SubSeq(bytes, i + 1, Len(bytes)))
    ELSE << bytes >>

\* Every line followed by one newline byte, concatenated in order.
RECURSIVE JoinLines(_)
JoinLines(lines) ==
    IF lines = << >> THEN << >>
    ELSE Head(lines) \o << NEWLINE_BYTE >> \o JoinLines(Tail(lines))

TerminatedSeen == terminal_seen /\ wait_result = "Ok"
WaitErrorSeen == terminal_seen /\ wait_result = "Err"

\* C1: once the Terminated event has been delivered to the consumer, no further
\* event (Stdout, Stderr or Error) is delivered.
C1_TerminatedIsLast == TerminatedSeen => ~after_terminal

\* C2: the supervisor sends nothing before it ends and exactly one event in all:
\* one Terminated when the wait succeeded, one Error when it failed, never both and
\* never two.
C2_OneTerminalEvent ==
    /\ sent["Terminated"] + sent[WaitError] <= 1
    /\ supervisor # "done" => sent["Terminated"] + sent[WaitError] = 0
    /\ supervisor = "done" =>
          /\ sent["Terminated"] = (IF wait_result = "Ok" THEN 1 ELSE 0)
          /\ sent[WaitError] = (IF wait_result = "Err" THEN 1 ELSE 0)
C2_Witness == supervisor = "done" /\ sent["Terminated"] = 1 /\ terminal_seen

\* C3: for each stream, the payloads delivered with the stream's tag are at every
\* moment the first records the child wrote to it, in order, and once the channel
\* has closed they are all of them.
C3_RecordsInOrder ==
    \A s \in Streams :
        /\ IsPrefix(got[s], Records(written[s]))
        /\ rx = "closed" => got[s] = Records(written[s])
C3_Witness ==
    /\ rx = "closed"
    /\ Len(got["Stdout"]) = 2
    /\ got["Stdout"][1] # got["Stdout"][2]
    /\ Len(got["Stderr"]) = 2

\* C4: once kill() was called on the running child, the supervisor's event
\* (Terminated, or the Error that stands in its place when the wait fails) is
\* eventually delivered and the channel then closes.
C4_KillLeadsToTerminated == kill_sent ~> (terminal_seen /\ rx = "closed")

\* C5: once the child has exited and both readers have read end-of-stream, the
\* supervisor finishes and the channel closes; the channel closes only after the
\* supervisor's event was delivered and every thread has ended.
C5_DrainedStreamCloses ==
    /\ (child = "exited" /\ \A s \in Streams : reader[s] = "done") ~> (rx = "closed")
    /\ [](rx = "closed" => terminal_seen /\ senders_dropped /\ ~guard.writer /\ guard.readers = {})
C5_Witness == rx = "closed" /\ terminal_seen /\ child = "exited" /\ guard.readers = {}

\* C6: after spawn() has returned an error there is no child, no handle, no
\* channel, no reader thread and no supervisor thread, and no event was sent
\* or delivered.
C6_FailedSpawnStartsNothing ==
    spawn_result = "Err" =>
        /\ child = "none" /\ handle = "none" /\ rx = "none" /\ chan = << >>
        /\ supervisor = "none"
        /\ \A s \in Streams : reader[s] = "none" /\ buf[s] = None /\ got[s] = << >>
        /\ \A k \in TerminalKinds : sent[k] = 0
        /\ guard = [readers |-> {}, writer |-> FALSE]
        /\ ~terminal_seen
C6_Witness == spawn_result = "Err"

\* C7: a reader that has sent the Error event of a failed read leaves its loop
\* and releases its shared hold of the guard; it never goes back to reading.
C7_ReaderStopsAfterError ==
    [][\A s \in Streams :
          (reader[s] = "send" /\ buf[s] = Some(Error(ReadError(s))) /\ reader'[s] # "send")
              => (reader'[s] = "done" /\ s \notin guard'.readers)]_vars

\* C8 (the supervisor's part): also when reads of a pipe fail, once the child has
\* exited the supervisor's terminal event is eventually delivered.
C8_ReadErrorStopsNothing == (child = "exited") ~> terminal_seen

\* C8 (the other reader's part, which holds): once the child has exited, every
\* stream either has all its records delivered or its own reader has just failed
\* a read; failed reads of one pipe do not keep the other stream's records back.
C8_OtherReaderDelivers ==
    \A s \in Streams :
        (child = "exited") ~> (got[s] = Records(written[s]) \/ buf[s] = Some(Error(ReadError(s))))

\* C9: when the wait failed the supervisor sends one Error and no Terminated, holding
\* the guard exclusively while it sends, and once that Error has been delivered no
\* further event is delivered.
C9_WaitErrorIsTerminal ==
    wait_result = "Err" =>
        /\ sent["Terminated"] = 0
        /\ supervisor = "send" => guard.writer
        /\ supervisor = "done" => sent[WaitError] = 1
        /\ WaitErrorSeen => ~after_terminal

C11_StatusReturnsTerminatedCode ==
    /\ status_code = (IF TerminatedSeen THEN status.code ELSE None)
    /\ (rx = "closed" /\ ~TerminatedSeen) => (status_code = None /\ WaitErrorSeen)
C11_Witness ==
    /\ rx = "closed"
    /\ TerminatedSeen /\ after_terminal
    /\ status_code = Some(1)
    /\ got["Stdout"] # << >> /\ got["Stderr"] # << >>

\* C12: the channel never buffers more than one undelivered event; a reader reads
\* the next record only when its previous send has returned; a send finds room only
\* when the one slot is free, so while the consumer does not receive, a full channel
\* stalls every thread that is sending.
C12_SendIsBlockingHandOff ==
    /\ Len(chan) <= Capacity
    /\ \A s \in Streams :
        /\ reader[s] = "send" <=> buf[s] # None
        /\ (reader[s] = "send" /\ rx = "open" /\ Len(chan) = Capacity)
                => ~ENABLED reader_send(s)
    /\ (supervisor = "send" /\ rx = "open" /\ Len(chan) = Capacity)
            => ~ENABLED supervisor_send
C12_Witness ==
    /\ rx = "open" /\ Len(chan) = Capacity
    /\ \A s \in Streams : reader[s] = "send" /\ buf[s] = Some(wrapper(s, << 97 >>))

\* C13: a write() after the child has exited and closed its stdin returns an I/O
\* error to the caller; it returns (it does not block) and it produces no event.
C13_WriteAfterExitFails ==
    [][(child = "exited" /\ write_result' # write_result)
          => /\ write_result'[1].result = "Err"
             /\ UNCHANGED << channelVars, readerVars, supervisorVars, sent >>]_vars

\* C13, amended: a write() of at least one byte after the child has exited returns
\* an I/O error, a write() of an empty buffer returns Ok; either returns at once and
\* produces no event.
C13_NonEmptyWriteAfterExitFails ==
    [][(child = "exited" /\ write_result' # write_result)
          => /\ write_result'[1].result = "Err" <=> write_result'[1].buf # << >>
             /\ UNCHANGED << channelVars, readerVars, supervisorVars, sent >>]_vars
C13_Witness ==
    /\ child = "exited" /\ handle = "held"
    /\ write_result = Some([buf |-> << 97 >>, result |-> "Err"])

\* C14: after any sequence of envs() calls the Command's environment maps every key
\* given in any of the calls to the value of the latest call that gave it; mappings
\* of an earlier call whose keys are not given again are kept.
C14_EnvsAddsOrUpdates == \A k \in EnvKeys : env[k] = env_merged[k]

\* C15: for the ExitStatus that status() or output() returns, built from the
\* delivered Terminated payload, success() is true exactly when the payload's code is
\* present and 0; with an absent code or a payload that carries a signal it is false.
C15_SuccessIffCodeZero ==
    rx = "closed" =>
        /\ success(ExitStatus(status_code)) <=> (TerminatedSeen /\ status.code = Some(0))
        /\ success(ExitStatus(code)) <=> (TerminatedSeen /\ status.code = Some(0))
        /\ (TerminatedSeen /\ (status.code = None \/ status.signal # None))
                => (~success(ExitStatus(status_code)) /\ ~success(ExitStatus(code)))
C15_Witness ==
    /\ rx = "closed"
    /\ TerminatedSeen /\ status.signal = Some(9) /\ status.code = None
    /\ ~success(ExitStatus(status_code))

\* C16: whenever the supervisor holds the guard exclusively after the child's exit,
\* both pipe readers have finished their loops, also when the child exited before a
\* reader thread took its shared hold.
C16_ExclusiveAfterReaders ==
    (guard.writer /\ wait_result = "Ok") => \A s \in Streams : reader[s] = "done"

\* C17: dropping the CommandChild without kill closes only the stdin write end: the
\* child is not signalled, the consumer receives every output record and the
\* Terminated event with the child's exit code, and the records come before the
\* Terminated event: none is delivered once Terminated has been.
C17_DropKeepsEvents ==
    /\ [](handle = "dropped" =>
            /\ ~kill_sent /\ status.signal = None
            /\ (rx = "closed" /\ wait_result = "Ok") =>
                  /\ \A s \in Streams : got[s] = Records(written[s])
                  /\ TerminatedSeen /\ code = status.code)
    /\ [][(handle = "dropped" /\ TerminatedSeen) => got' = got]_vars

\* The part of C17 that holds: the drop changes nothing but the handle, the child is
\* never signalled, and every record and the child's code are delivered by the time
\* the channel has closed.
C17_DropClosesOnlyStdin ==
    handle = "dropped" =>
        /\ ~kill_sent /\ status.signal = None
        /\ child # "none" /\ supervisor # "none" /\ \A s \in Streams : reader[s] # "none"
        /\ (rx = "closed" /\ wait_result = "Ok") =>
              /\ \A s \in Streams : got[s] = Records(written[s])
              /\ TerminatedSeen /\ code = status.code

\* The payloads of the events tagged s in a sequence of events.
Payloads(events, s) ==
    LET Tagged(e) == e.tag = s
        tagged == SelectSeq(events, Tagged)
    IN  [i \in 1..Len(tagged) |-> tagged[i].data]

\* C18: a reader leaves its loop only on a read that consumed nothing, which is at
\* the end of the stream with nothing left in the pipe, and that read sends no event;
\* every read that consumed bytes sends exactly one event with the stream's tag, so
\* the records written are, in order, those delivered, the one in the channel, the
\* one being sent and those still in the pipe; a separator alone is one such record,
\* sent with an empty payload.
C18_OneEventPerRecord ==
    \A s \in Streams :
        /\ reader[s] = "done" => (pipe[s] = << >> /\ eof(s) /\ buf[s] = None)
        /\ buf[s] # None => buf[s][1].tag \in {s, "Error"}
        /\ Records(written[s]) =
              got[s] \o Payloads(chan, s) \o Payloads(buf[s], s) \o Records(pipe[s])
C18_Witness ==
    \E s \in Streams :
        /\ reader[s] = "done"
        /\ got[s] = << << >>, << 97 >> >>

\* C19: once the consumer has dropped the receiver and the child has exited, the
\* supervisor and both pipe readers terminate: no send waits on the abandoned
\* channel and each reader drains its pipe to the end of its stream.
C19_AbandonedStreamDrains ==
    (rx = "dropped" /\ child = "exited")
        ~> (supervisor = "done" /\ \A s \in Streams : reader[s] = "done")

\* The part of C19 that holds: with the receiver dropped no send waits, and nothing
\* is kept in the channel.
C19_NoSendWaits ==
    rx = "dropped" =>
        /\ chan = << >>
        /\ \A s \in Streams : reader[s] = "send" => ENABLED reader_send(s)
        /\ supervisor = "send" => ENABLED supervisor_send

\* C20: status() and output() hold the CommandChild, and so the open write end of
\* the child's stdin, for as long as they drain the channel, and they never kill; a
\* child that exits only at the end of its stdin therefore never exits, the channel
\* never closes and the call never returns.
C20_HandleKeptWhileDraining ==
    /\ spawn_result = "Ok" => (handle = "held" /\ ~stdin_eof /\ ~kill_sent)
    /\ waits_stdin => (child # "exited" /\ rx # "closed" /\ ~senders_dropped)
C20_Witness ==
    /\ waits_stdin /\ child = "running" /\ handle = "held"
    /\ written = program /\ program["Stdout"] # << >>
    /\ \A s \in Streams : reader[s] = "read" /\ pipe[s] = << >> /\ got[s] = Records(written[s])
    /\ rx = "open" /\ chan = << >>

====
